---- MODULE Spec2Model ----
(***************************************************************************)
(* The request-orchestration layer of the IAMONEAI gateway                 *)
(* (src/gateway/app): the /chat and /chat/complete handlers, the Upstash   *)
(* Redis service they use for rate limiting and conversation history, the  *)
(* Firestore service they use for durable records, and the post-processing *)
(* of the upstream text.                                                   *)
(*                                                                         *)
(* Every await of an external call is one atomic step of a request; the    *)
(* steps of concurrent requests interleave freely.  Each external call may *)
(* succeed or fail; what the code does with a failure is modelled by the   *)
(* operator that stands for the code that receives it.                     *)
(***************************************************************************)
EXTENDS Integers, Sequences, FiniteSets, TLC

\* ------------------------------------------------------------ constants

\* chat.py: check_rate_limit(f"rate:{user_id}", limit=60, window_seconds=60)
RATE_LIMIT == 60
WINDOW_SECONDS == 60
\* redis_service.py: save_conversation(..., ttl: int = 3600)
CONV_TTL == 3600
\* chat.py: messages.extend(history[-20:])
HISTORY_TAIL == 20

\* chat.py ChatRequest: max_tokens = Field(default=1024, ge=1, le=4096)
MAX_TOKENS_DEFAULT == 1024
MAX_TOKENS_MIN == 1
MAX_TOKENS_MAX == 4096
\* chat.py ChatRequest: temperature = Field(default=0.7, ge=0.0, le=2.0), in
\* tenths.
TEMPERATURE_DEFAULT == 7
TEMPERATURE_MIN == 0
TEMPERATURE_MAX == 20

\* ------------------------------------------------------------ bounds

\* How many times the clock may advance in one behaviour.
MaxTicks == 2
\* How many exchanges (a user and an assistant message each) beyond
\* HISTORY_TAIL messages a transcript stored before the first request may hold.
MaxExchanges == 1

\* How many tokens a text handed to clean_response alone may be made of.
MaxTokens == 5

\* The requests of one behaviour (each is handled once).  Spec follows one
\* request through its whole handler; SpecRate follows the rate-limit checks
\* of two concurrent requests.
Requests == {1, 2}
Solo == {1}
\* X-User-ID absent (or empty) becomes "anonymous" (chat.py:71).
Users == {"anonymous", "u1"}
\* The amounts by which the clock advances.
TimeSteps == {WINDOW_SECONDS \div 2, CONV_TTL \div 2}
\* The values the counter of "u1" may hold when the first request arrives.
InitCounts == {0, RATE_LIMIT - 1, RATE_LIMIT}
\* The lengths of the transcript of "u1" stored when the first request arrives.
InitHistoryLens == {0, HISTORY_TAIL, HISTORY_TAIL + 2 * MaxExchanges}

\* ------------------------------------------------------------ text

\* A text is a sequence of characters (one-character strings; the symbols
\* "q1", "h3", ... of user and stored messages stand for plain characters).
OPEN == <<"<", "t", "h", "i", "n", "k", ">">>
CLOSE == <<"<", "/", "t", "h", "i", "n", "k", ">">>
Whitespace == {" "}

StartsWith(s, p) ==
    /\ Len(s) >= Len(p)
    /\ SubSeq(s, 1, Len(p)) = p

\* The least i >= from at which p occurs in s, or 0.
RECURSIVE Find(_, _, _)
Find(s, p, from) ==
    IF from + Len(p) - 1 > Len(s) THEN 0
    ELSE IF SubSeq(s, from, from + Len(p) - 1) = p THEN from
    ELSE Find(s, p, from + 1)

\* A pattern whose closing tag is optional: an opening tag that is never
\* closed takes the rest of the text with it.
RECURSIVE SubThinkToEnd(_)
SubThinkToEnd(s) ==
    IF s = <<>> THEN <<>>
    ELSE IF StartsWith(s, OPEN)
    THEN LET j == Find(s, CLOSE, Len(OPEN) + 1)
         IN  IF j > 0 THEN SubThinkToEnd(SubSeq(s, j + Len(CLOSE), Len(s)))
             ELSE <<>>
    ELSE <<Head(s)>> \o SubThinkToEnd(Tail(s))

\* re.sub(r'<think>.*?</think>', '', text, flags=re.DOTALL): one scan from
\* the left; at each position the pattern matches when the text there starts
\* with <think> and a </think> follows, and it takes the nearest one; the
\* scan goes on after the match and never looks at the text it has put out.
RECURSIVE SubThink(_)
SubThink(s) ==
    IF s = <<>> THEN <<>>
    ELSE LET j == IF StartsWith(s, OPEN) THEN Find(s, CLOSE, Len(OPEN) + 1) ELSE 0
         IN  IF j > 0
             THEN SubThink(SubSeq(s, j + Len(CLOSE), Len(s)))
             ELSE <<Head(s)>> \o SubThink(Tail(s))

RECURSIVE LStrip(_)
LStrip(s) ==
    IF s # <<>> /\ Head(s) \in Whitespace THEN LStrip(Tail(s)) ELSE s

RECURSIVE RStrip(_)
RStrip(s) ==
    IF s # <<>> /\ s[Len(s)] \in Whitespace
    THEN RStrip(SubSeq(s, 1, Len(s) - 1)) ELSE s

Strip(s) == RStrip(LStrip(s))

\* chat.py clean_response
clean_response(text) ==
    IF text = <<>> THEN text ELSE Strip(SubThink(text))

\* The texts the upstream provider may answer with: a paired span with
\* whitespace around the answer, an unclosed tag, and a closing tag that
\* meets the two halves of an opening tag once the inner span is gone.
PairedText == <<" ">> \o OPEN \o <<"x">> \o CLOSE \o <<"a", " ">>
UnclosedText == OPEN \o <<"a">>
SplicedText ==
    <<"<", "t", "h">> \o OPEN \o <<"x">> \o CLOSE \o <<"i", "n", "k", ">">>
        \o <<"a">> \o CLOSE
UpstreamTexts == {PairedText, UnclosedText, SplicedText}
\* What str(e) of a failed upstream call may be.
UpstreamErrors == {"timeout", "http_503"}

\* The pieces the texts handed to clean_response alone are made of: the two
\* tags, a plain character, a blank, and the two halves of an opening tag.
TextTokens ==
    {OPEN, CLOSE, <<"a">>, <<" ">>, <<"<", "t", "h">>, <<"i", "n", "k", ">">>}

RECURSIVE Flatten(_)
Flatten(ts) == IF ts = <<>> THEN <<>> ELSE Head(ts) \o Flatten(Tail(ts))

\* Every text of at most MaxTokens pieces.
Texts == {Flatten(ts) : ts \in UNION {[1..k -> TextTokens] : k \in 0..MaxTokens}}

\* ------------------------------------------------------------ messages

Msg(role, content) == [role |-> role, content |-> content]

\* The i-th message of a transcript stored before the first request.
StoredMsg(i) ==
    Msg(IF i % 2 = 1 THEN "user" ELSE "assistant", <<"h" \o ToString(i)>>)
StoredTranscript(n) == [i \in 1..n |-> StoredMsg(i)]

\* The message text of request r, and the system prompt a request may carry.
UserText(r) == <<"q" \o ToString(r)>>
SystemText == <<"s">>
NoPrompt == <<>>

\* A slice from the wrong end: history[:20].
FirstMessages(history) ==
    IF Len(history) <= HISTORY_TAIL THEN history
    ELSE SubSeq(history, 1, HISTORY_TAIL)

\* history[-20:]
LastMessages(history) ==
    IF Len(history) <= HISTORY_TAIL THEN history
    ELSE SubSeq(history, Len(history) - HISTORY_TAIL + 1, Len(history))

\* chat.py 90-105: the messages array sent to the LLM.
AssembleMessages(system_prompt, history, message) ==
    (IF system_prompt # NoPrompt THEN <<Msg("system", system_prompt)>> ELSE <<>>)
        \o LastMessages(history)
        \o <<Msg("user", message)>>

\* History for whoever asks for it, named or not.
UsesHistoryAnyCaller(use_history, user_id) == use_history

\* chat.py 98 and 128: history is used only for an opted-in, named caller.
UsesHistory(use_history, user_id) ==
    use_history /\ user_id # "anonymous"

\* chat.py 130-131: the transcript that is saved after the exchange.
UpdatedHistory(history, message, response_text) ==
    history \o <<Msg("user", message), Msg("assistant", response_text)>>

\* ------------------------------------------------------------ results

\* What an awaited call hands back: None, a value, or an exception.
None == [kind |-> "none"]
Value(v) == [kind |-> "value", val |-> v]
Raise == [kind |-> "raise"]

\* _execute without its except clause: the exception of the call escapes.
_executeUncaught(configured, reachable, reply) ==
    IF ~configured THEN None
    ELSE IF reachable THEN reply
    ELSE Raise

\* redis_service.py _execute: no client or no token gives None without a
\* call; an exception of the call (unreachable store, HTTP error) is caught
\* and gives None; otherwise the "result" field of the reply.
_execute(configured, reachable, reply) ==
    IF ~configured THEN None
    ELSE IF reachable THEN reply
    ELSE None

\* check_rate_limit 117: count = int(current) if current else 0
ParseCount(current) ==
    IF current.kind = "value" THEN current.val ELSE 0

\* An off-by-one limit: if count > limit.
IsRejectedAboveLimit(count, limit) == count > limit

\* check_rate_limit 119: if count >= limit: return False, count
IsRejected(count, limit) == count >= limit

\* check_rate_limit 124: if count == 0: await self.expire(key, window_seconds)
NeedsExpire(count, new_count) == count = 0

\* check_rate_limit 127: return True, new_count or count + 1
ReturnedCount(new_count, count) ==
    IF new_count.kind = "value" /\ new_count.val # 0 THEN new_count.val
    ELSE count + 1

\* get_conversation without its guard: data.get("messages", []) on None.
get_conversationUnguarded(value) ==
    IF value.kind = "value" /\ value.val # <<>> THEN Value(value.val)
    ELSE Raise

\* get_json and get_conversation: data.get("messages", []) if data else []
get_conversation(value) ==
    IF value.kind = "raise" THEN Raise
    ELSE IF value.kind = "value" /\ value.val # <<>> THEN Value(value.val)
    ELSE Value(<<>>)

\* ------------------------------------------------------------ upstream replies

\* A JSON value of the provider's reply, as response.json() returns it: None,
\* a str, a number, a list or a dict.  Absent marks a key a dict does not
\* have; it is no value.
Absent == [t |-> "absent"]
JNull == [t |-> "null"]
JStr(s) == [t |-> "str", s |-> s]
JNum(n) == [t |-> "num", n |-> n]
JList(items) == [t |-> "list", items |-> items]
JDict(f) ==
    [t |-> "dict", fields |-> [k \in {x \in DOMAIN f : f[x] # Absent} |-> f[k]]]
EmptyDict == JDict(<<>>)

\* k in d, d.get(k, default)
Has(d, k) == k \in DOMAIN d.fields
Get(d, k, default) == IF Has(d, k) THEN d.fields[k] ELSE default

\* bool(v)
Truthy(v) ==
    CASE v.t = "null" -> FALSE
      [] v.t = "str" -> v.s # ""
      [] v.t = "num" -> v.n # 0
      [] v.t = "list" -> v.items # <<>>
      [] v.t = "dict" -> DOMAIN v.fields # {}

\* a or b
PyOr(a, b) == IF Truthy(a) THEN a ELSE b

\* a + b: numbers add, strings and lists concatenate, anything else is a
\* TypeError.
PyAdd(a, b) ==
    IF a.t = "num" /\ b.t = "num" THEN Value(JNum(a.n + b.n))
    ELSE IF a.t = "str" /\ b.t = "str" THEN Value(JStr(a.s \o b.s))
    ELSE IF a.t = "list" /\ b.t = "list" THEN Value(JList(a.items \o b.items))
    ELSE Raise

\* k occurs in the string s.
Occurs(k, s) ==
    \E i \in 1..(Len(s) - Len(k) + 1) : SubSeq(s, i, i + Len(k) - 1) = k

\* "k" in v: a key of a dict, an element of a list, a part of a str; a
\* TypeError for None and for a number.
In(k, v) ==
    CASE v.t = "dict" -> IF Has(v, k) THEN "yes" ELSE "no"
      [] v.t = "list" -> IF \E i \in 1..Len(v.items) : v.items[i] = JStr(k)
                         THEN "yes" ELSE "no"
      [] v.t = "str" -> IF Occurs(k, v.s) THEN "yes" ELSE "no"
      [] OTHER -> "raise"

\* str(v): a str is itself; of the others only what tells them apart is kept.
PyStr(v) ==
    CASE v.t = "str" -> v.s
      [] v.t = "null" -> "None"
      [] v.t = "num" -> ToString(v.n)
      [] v.t = "list" -> IF v.items = <<>> THEN "[]" ELSE "[...]"
      [] v.t = "dict" -> IF DOMAIN v.fields = {} THEN "{}" ELSE "{...}"

\* _extract_response and _extract_usage 208-221, 261-273: the first element
\* of a non-empty list.
FirstOf(v) == IF v.t = "list" /\ v.items # <<>> THEN v.items[1] ELSE v

\* _extract_response 231-239: tokens[0], else message.content, else text of
\* choices[0]; None when the choice has none of them.
ProbeChoice(choice) ==
    LET in_tokens == In("tokens", choice)
        tokens == choice.fields["tokens"]
    IN  IF in_tokens = "raise" THEN Raise
        ELSE IF in_tokens = "yes" /\ choice.t # "dict" THEN Raise
        ELSE IF in_tokens = "yes" /\ tokens.t = "list" /\ tokens.items # <<>>
        THEN Value(tokens.items[1])
        ELSE IF In("message", choice) = "yes"
        THEN IF choice.t # "dict" THEN Raise
             ELSE LET message == Get(choice, "message", EmptyDict)
                  IN  IF message.t = "dict"
                      THEN Value(Get(message, "content", JStr("")))
                      ELSE Raise
        ELSE IF In("text", choice) = "yes"
        THEN IF choice.t = "dict" THEN Value(choice.fields["text"]) ELSE Raise
        ELSE None

\* _extract_response 228-231: if "choices" in output, and choices is truthy
\* and has a length, its element 0 is probed.
ProbeChoices(output) ==
    IF ~Has(output, "choices") THEN None
    ELSE LET choices == output.fields["choices"]
         IN  IF ~Truthy(choices) THEN None
             ELSE IF choices.t = "num" THEN Raise
             ELSE IF choices.t = "dict" THEN Raise
             ELSE IF choices.t = "list" THEN ProbeChoice(choices.items[1])
             ELSE ProbeChoice(JStr(SubSeq(choices.s, 1, 1)))

\* _extract_response 242-252: text (element 0 of a list, "" of an empty
\* one), else response, else content.
ProbeFlat(output) ==
    IF Has(output, "text")
    THEN LET text == output.fields["text"]
         IN  IF text.t = "list"
             THEN Value(IF text.items # <<>> THEN text.items[1] ELSE JStr(""))
             ELSE Value(text)
    ELSE IF Has(output, "response") THEN Value(output.fields["response"])
    ELSE IF Has(output, "content") THEN Value(output.fields["content"])
    ELSE None

\* _extract_response 254-257
Stringified(output) ==
    IF output.t = "list" /\ output.items # <<>>
    THEN Value(JStr(PyStr(output.items[1])))
    ELSE Value(JStr(PyStr(output)))

\* llm_service.py _extract_response: what it returns, or that it raises.
_extract_response(result) ==
    IF result.t = "list" /\ result.items = <<>> THEN Value(JStr(""))
    ELSE LET res == FirstOf(result)
         IN  IF res.t # "dict" THEN Value(JStr(PyStr(res)))
             ELSE LET output == FirstOf(Get(res, "output", EmptyDict))
                  IN  IF output.t = "str" THEN Value(output)
                      ELSE IF output.t # "dict" THEN Stringified(output)
                      ELSE LET choice == ProbeChoices(output)
                               flat == ProbeFlat(output)
                           IN  IF choice.kind # "none" THEN choice
                               ELSE IF flat.kind # "none" THEN flat
                               ELSE Stringified(output)

\* llm_service.py _extract_usage: the dict it returns, or that it raises.
_extract_usage(result) ==
    IF result.t = "list" /\ result.items = <<>> THEN Value(EmptyDict)
    ELSE LET res == FirstOf(result)
         IN  IF res.t # "dict" THEN Value(EmptyDict)
             ELSE LET output == FirstOf(Get(res, "output", EmptyDict))
                      usage == Get(output, "usage", EmptyDict)
                  IN  IF output.t # "dict" THEN Value(EmptyDict)
                      ELSE IF ~Truthy(usage) THEN Value(EmptyDict)
                      ELSE IF usage.t # "dict" THEN Raise
                      ELSE LET prompt == PyOr(Get(usage, "input", JNull),
                                              Get(usage, "prompt_tokens", JNull))
                               completion == PyOr(Get(usage, "output", JNull),
                                                  Get(usage, "completion_tokens", JNull))
                               total == PyAdd(PyOr(Get(usage, "input", JNum(0)),
                                                   Get(usage, "prompt_tokens", JNum(0))),
                                              PyOr(Get(usage, "output", JNum(0)),
                                                   Get(usage, "completion_tokens", JNum(0))))
                           IN  IF total.kind = "raise" THEN Raise
                               ELSE Value(JDict("prompt_tokens" :> prompt
                                             @@ "completion_tokens" :> completion
                                             @@ "total_tokens" :> total.val))

\* The replies handed to the two functions.  The values a field may hold:
Leaves ==
    {JStr("hello world"), JStr(""), JNull, JNum(7), JList(<<>>),
     JList(<<JStr("hello world")>>), EmptyDict}
FieldVals == Leaves \cup {Absent}
\* choices[0].tokens, choices[0].message, choices[0]
TokenVals ==
    {Absent, JNull, JStr("x"), JList(<<>>), JList(<<JStr("hello world")>>),
     JList(<<JNull>>), JList(<<JNum(7)>>)}
MessageVals ==
    {Absent, JNull, JStr("m"), EmptyDict}
        \cup {JDict("content" :> v) : v \in Leaves}
ChoiceVals ==
    {JDict("tokens" :> tk @@ "message" :> m @@ "text" :> tx) :
        tk \in TokenVals, m \in MessageVals,
        tx \in {Absent, JNull, JStr("choice text")}}
      \cup Leaves
\* output.usage
UsageVals ==
    {JDict("input" :> a @@ "prompt_tokens" :> b @@ "output" :> c
           @@ "completion_tokens" :> d @@ "total_tokens" :> e) :
        a \in {Absent, JNull, JNum(0), JNum(3)}, b \in {Absent, JNull, JNum(5)},
        c \in {Absent, JNull, JNum(2)}, d \in {Absent, JNull, JNum(4)},
        e \in {Absent, JNum(100)}}
      \cup {JNull, JNum(7), JStr("u")}
\* output
OutputVals ==
    {JDict("choices" :> JList(<<c>>) @@ "text" :> tx) :
        c \in ChoiceVals, tx \in {Absent, JStr("T")}}
      \cup {JDict("choices" :> cv @@ "text" :> t @@ "response" :> r @@ "content" :> c) :
               cv \in {Absent, JNull, JNum(7), JList(<<>>), JDict("a" :> JNull)},
               t \in FieldVals, r \in {Absent, JNull, JStr("R")},
               c \in {Absent, JNull, JStr("C")}}
      \cup {JDict("text" :> JStr("T") @@ "usage" :> u) : u \in UsageVals}
      \cup Leaves
      \cup {JList(<<JList(<<JStr("x")>>)>>)}
\* result: a dict with or without output, output in a one-element list, a
\* bare value, and each of them in a one-element list.
DictReplies ==
    {JDict("output" :> o) : o \in OutputVals \cup {Absent}}
      \cup {JDict("output" :> JList(<<o>>)) : o \in OutputVals}
Replies ==
    DictReplies \cup Leaves \cup {JList(<<r>>) : r \in DictReplies \cup Leaves}

\* ------------------------------------------------------------ state

VARIABLES
    redis_configured,   \* RedisService._client and token are set
    counter,            \* the store's value of key rate:<user>, 0 when absent
    counter_ttl,        \* its remaining seconds, -1 when it has no expiry
    conv,               \* the store's transcript of key conv:<user>, <<>> when absent
    conv_ttl,           \* its remaining seconds, -1 when it has no expiry
    db_configured,      \* FirestoreService.db is set
    chat_history,       \* the documents of collection chat_history
    api_logs,           \* the documents of collection api_logs
    req,                \* the requests: inputs, locals, position, response, and
                        \* what each has called and seen (calls, checked,
                        \* seen_count, post_count, disturbed, seen_conv)
    ticks,              \* how often the clock has advanced
    probe               \* a text or an upstream reply, and what clean_response,
                        \* _extract_response and _extract_usage made of it

vars == <<redis_configured, counter, counter_ttl, conv, conv_ttl,
          db_configured, chat_history, api_logs, req, ticks, probe>>

redis_vars == <<counter, counter_ttl, conv, conv_ttl>>
fs_vars == <<chat_history, api_logs>>
env_vars == <<redis_configured, db_configured, ticks>>
fn_vars == <<probe>>

NoTtl == 0 - 1

\* Nothing is under a pure function.
NoProbe == [fn |-> "none"]

IdleRequest ==
    [pc |-> "idle", endpoint |-> "chat", user_id |-> "anonymous",
     use_history |-> FALSE, system_prompt |-> NoPrompt, message |-> <<>>,
     body_limits |-> <<Absent, Absent>>,
     body_model |-> Absent, model |-> "llama3", url |-> "",
     max_tokens |-> JNum(MAX_TOKENS_DEFAULT), temperature |-> JNum(TEMPERATURE_DEFAULT),
     count |-> 0, new_count |-> None, is_allowed |-> TRUE, rl_count |-> 0,
     history |-> <<>>, messages |-> <<>>, raw |-> <<>>, response_text |-> <<>>,
     error |-> "", status |-> 0, body |-> <<>>, detail |-> "",
     calls |-> <<>>, checked |-> FALSE, seen_count |-> 0, post_count |-> 0,
     disturbed |-> FALSE, seen_conv |-> <<>>]

Init ==
    /\ redis_configured \in BOOLEAN
    /\ db_configured \in BOOLEAN
    /\ \E c \in InitCounts, n \in InitHistoryLens :
        /\ redis_configured \/ (c = 0 /\ n = 0)
        /\ counter = [u \in Users |-> IF u = "u1" THEN c ELSE 0]
        /\ counter_ttl = [u \in Users |->
               IF u = "u1" /\ c > 0 THEN WINDOW_SECONDS \div 2 ELSE NoTtl]
        /\ conv = [u \in Users |-> IF u = "u1" THEN StoredTranscript(n) ELSE <<>>]
        /\ conv_ttl = [u \in Users |->
               IF u = "u1" /\ n > 0 THEN CONV_TTL \div 2 ELSE NoTtl]
    /\ chat_history = {}
    /\ api_logs = {}
    /\ req = [r \in Requests |-> IdleRequest]
    /\ ticks = 0
    /\ probe = NoProbe

\* One more external call in the request's record of calls.
Called(q, op, ok) == Append(q.calls, [op |-> op, ok |-> ok])

\* ------------------------------------------------------------ requests

\* An exception no handler catches: the framework answers 500.
Unhandled(q) ==
    [q EXCEPT !.pc = "done", !.status = 500, !.detail = "Internal Server Error"]

\* A handler that notes the rejection and goes on all the same.
AdmitRegardless(q, is_allowed, rl_count) ==
    LET c == [q EXCEPT !.checked = TRUE, !.is_allowed = is_allowed,
                       !.rl_count = rl_count]
    IN  IF c.endpoint = "chat" /\ UsesHistory(c.use_history, c.user_id)
        THEN [c EXCEPT !.pc = "hist_load"]
        ELSE IF c.endpoint = "chat"
        THEN [c EXCEPT !.pc = "dispatch",
                       !.messages = AssembleMessages(c.system_prompt, <<>>, c.message)]
        ELSE [c EXCEPT !.pc = "dispatch"]

\* A handler that saves the conversation before it has an answer.
AdmitSaveFirst(q, is_allowed, rl_count) ==
    LET c == [q EXCEPT !.checked = TRUE, !.is_allowed = is_allowed,
                       !.rl_count = rl_count]
    IN  IF ~is_allowed
        THEN [c EXCEPT !.pc = "done", !.status = 429,
                       !.detail = "Rate limit exceeded"]
        ELSE IF c.endpoint = "chat" /\ UsesHistory(c.use_history, c.user_id)
        THEN [c EXCEPT !.pc = "conv_save"]
        ELSE IF c.endpoint = "chat"
        THEN [c EXCEPT !.pc = "dispatch",
                       !.messages = AssembleMessages(c.system_prompt, <<>>, c.message)]
        ELSE [c EXCEPT !.pc = "dispatch"]

\* chat.py 83-105 and 208-211: a rejected request ends with 429; an admitted
\* one goes on to load its history, or straight to the upstream call.
Admit(q, is_allowed, rl_count) ==
    LET c == [q EXCEPT !.checked = TRUE, !.is_allowed = is_allowed,
                       !.rl_count = rl_count]
    IN  IF ~is_allowed
        THEN [c EXCEPT !.pc = "done", !.status = 429,
                       !.detail = IF c.endpoint = "chat"
                                  THEN "Rate limit exceeded. Please wait before sending more messages."
                                  ELSE "Rate limit exceeded"]
        ELSE IF c.endpoint = "chat" /\ UsesHistory(c.use_history, c.user_id)
        THEN [c EXCEPT !.pc = "hist_load"]
        ELSE IF c.endpoint = "chat"
        THEN [c EXCEPT !.pc = "dispatch",
                       !.messages = AssembleMessages(c.system_prompt, <<>>, c.message)]
        ELSE [c EXCEPT !.pc = "dispatch"]

\* The request models' Optional[int] / Optional[float] fields with ge and
\* le (chat.py 38-39, 48-49): an absent field takes the default, null is
\* accepted as None, a number must lie in the range; anything else fails
\* validation.
Validated(v, default, lo, hi) ==
    IF v = Absent THEN Value(JNum(default))
    ELSE IF v = JNull THEN Value(JNull)
    ELSE IF v.t = "num" /\ lo <= v.n /\ v.n <= hi THEN Value(v)
    ELSE Raise

\* The request is parsed before the handler runs: a body that fails
\* validation is answered 422 by the framework and the handler never starts.
Parsed(q, limits) ==
    LET max_tokens == Validated(limits[1], MAX_TOKENS_DEFAULT,
                                MAX_TOKENS_MIN, MAX_TOKENS_MAX)
        temperature == Validated(limits[2], TEMPERATURE_DEFAULT,
                                 TEMPERATURE_MIN, TEMPERATURE_MAX)
        b == [q EXCEPT !.body_limits = limits]
    IN  IF max_tokens.kind = "raise" \/ temperature.kind = "raise"
        THEN [b EXCEPT !.pc = "done", !.status = 422,
                       !.detail = "Unprocessable Entity"]
        ELSE [b EXCEPT !.pc = "rate_get", !.max_tokens = max_tokens.val,
                       !.temperature = temperature.val]

\* The body has neither max_tokens nor temperature.
DefaultLimits == {<<Absent, Absent>>}

\* llm_service.py 15-18: the values of the enum LLMModel.
LLMModel == {"llama3", "nemotron", "groq"}

\* The model names a body may carry, and str.lower of each.
ModelNames == {"llama3", "nemotron", "groq", "LLAMA3", "Groq", "gpt-4", ""}

Lower(s) ==
    CASE s = "LLAMA3" -> "llama3"
      [] s = "Groq" -> "groq"
      [] OTHER -> s

\* What a body may carry as model: no field, null, or a name.
BodyModels == {Absent, JNull} \cup {JStr(s) : s \in ModelNames}

\* The body has no model field.
DefaultModels == {Absent}

\* The request models' model: Optional[str] = Field(default="llama3")
\* (chat.py 37, 47).
ModelField(v) == IF v = Absent THEN JStr("llama3") ELSE v

\* chat.py 73-74: /chat uses llama3, whatever request.model says.
ChatModel(v) == "llama3"

\* chat.py 196-200: /chat/complete takes the lowercased name when it is a
\* value of LLMModel, and llama3 when it is empty, null or unknown.
ParseModel(v) ==
    IF ~Truthy(v) THEN "llama3"
    ELSE IF Lower(v.s) \in LLMModel THEN Lower(v.s)
    ELSE "llama3"

\* llm_service.py 25-28 with the endpoint ids of config.py 54-58.
runpod_endpoints ==
    [m \in {"llama3", "nemotron"} |->
        IF m = "llama3" THEN "nw34gp84qjli46" ELSE "29j7gu09q5l6x1"]

\* llm_service.py 36-38.
_get_runpod_endpoint_url(model) ==
    "https://api.runpod.ai/v2/" \o runpod_endpoints[model] \o "/runsync"

\* llm_service.py 73-85, 94, 146: the URL generate_with_history POSTs to.
ProviderUrl(model) ==
    IF model = "groq" THEN "https://api.groq.com/openai/v1/chat/completions"
    ELSE _get_runpod_endpoint_url(model)

\* POST /chat arrives (chat.py 35-42, 62-75), with inputs from the given sets.
ChatBeginWith(r, users, histories, prompts, limit_pairs, models) ==
    /\ req[r].pc = "idle"
    /\ \E user \in users, use_history \in histories, system_prompt \in prompts,
          limits \in limit_pairs, model \in models :
        req' = [req EXCEPT ![r] = Parsed([@ EXCEPT
                   !.endpoint = "chat", !.user_id = user,
                   !.body_model = model, !.model = ChatModel(ModelField(model)),
                   !.use_history = use_history, !.system_prompt = system_prompt,
                   !.message = UserText(r)], limits)]
    /\ UNCHANGED <<redis_vars, fs_vars, env_vars, fn_vars>>

ChatBegin(r) ==
    ChatBeginWith(r, Users, BOOLEAN, {NoPrompt, SystemText}, DefaultLimits,
                  DefaultModels)

\* A /chat request of which only the rate-limit check is followed.
RateBegin(r) ==
    ChatBeginWith(r, Users, {FALSE}, {NoPrompt}, DefaultLimits, DefaultModels)

\* The message lists a /chat/complete body may carry: messages is a required
\* list[ChatMessage] of any length (chat.py 46).
MessageLists(r) == {<<>>, <<Msg("user", UserText(r))>>}

\* POST /chat/complete arrives (chat.py 45-49, 186-201, 211).
CompleteBeginWith(r, users, limit_pairs, models) ==
    /\ req[r].pc = "idle"
    /\ \E user \in users, messages \in MessageLists(r), limits \in limit_pairs,
          model \in models :
        req' = [req EXCEPT ![r] = Parsed([@ EXCEPT
                   !.endpoint = "complete", !.user_id = user,
                   !.body_model = model, !.model = ParseModel(ModelField(model)),
                   !.message = UserText(r),
                   !.messages = messages], limits)]
    /\ UNCHANGED <<redis_vars, fs_vars, env_vars, fn_vars>>

CompleteBegin(r) == CompleteBeginWith(r, Users, DefaultLimits, DefaultModels)

\* The other requests that are between their GET and the end of their check
\* of the same counter learn that the counter moved under them.
Disturb(rq, r, u) ==
    [x \in Requests |->
        IF x # r /\ rq[x].user_id = u /\ rq[x].pc \in {"rate_incr", "rate_expire"}
        THEN [rq[x] EXCEPT !.disturbed = TRUE] ELSE rq[x]]

\* The end of check_rate_limit for an admitted call (127).
Checked(q, post) ==
    Admit([q EXCEPT !.post_count = post], TRUE, ReturnedCount(q.new_count, q.count))

\* check_rate_limit 113-120: no store, no check; else GET the counter and
\* reject at the limit.
RateGet(r) ==
    /\ req[r].pc = "rate_get"
    /\ LET q == req[r]
           u == q.user_id
       IN  IF ~redis_configured
           THEN req' = [req EXCEPT ![r] = Admit(q, TRUE, 0)]
           ELSE \E reachable \in BOOLEAN :
                LET current == _execute(redis_configured, reachable,
                                   IF counter[u] = 0 THEN None ELSE Value(counter[u]))
                    count == ParseCount(current)
                    g == [q EXCEPT !.calls = Called(q, "GET", reachable),
                                   !.count = count, !.seen_count = counter[u],
                                   !.post_count = counter[u]]
                IN  req' = [req EXCEPT ![r] =
                        IF current.kind = "raise" THEN Unhandled(g)
                        ELSE IF IsRejected(count, RATE_LIMIT)
                        THEN Admit(g, FALSE, count)
                        ELSE [g EXCEPT !.pc = "rate_incr"]]
    /\ UNCHANGED <<redis_vars, fs_vars, env_vars, fn_vars>>

\* check_rate_limit 122-125: INCR the counter (the store creates an absent
\* key with value 1 and no expiry).
RateIncr(r) ==
    /\ req[r].pc = "rate_incr"
    /\ \E reachable \in BOOLEAN :
        LET q == req[r]
            u == q.user_id
            new_count == _execute(redis_configured, reachable, Value(counter[u] + 1))
            g == [q EXCEPT !.calls = Called(q, "INCR", reachable),
                           !.new_count = new_count]
            post == IF reachable THEN counter[u] + 1 ELSE counter[u]
            rq == IF reachable THEN Disturb(req, r, u) ELSE req
        IN  /\ counter' = [counter EXCEPT ![u] = post]
            /\ req' = [rq EXCEPT ![r] =
                   IF new_count.kind = "raise" THEN Unhandled(g)
                   ELSE IF NeedsExpire(q.count, new_count)
                   THEN [g EXCEPT !.pc = "rate_expire", !.post_count = post]
                   ELSE Checked(g, post)]
    /\ UNCHANGED <<counter_ttl, conv, conv_ttl, fs_vars, env_vars, fn_vars>>

\* check_rate_limit 124-125: EXPIRE the counter key (the store sets the
\* expiry of a key that exists).
RateExpire(r) ==
    /\ req[r].pc = "rate_expire"
    /\ \E reachable \in BOOLEAN :
        LET q == req[r]
            u == q.user_id
            res == _execute(redis_configured, reachable, Value(IF counter[u] > 0 THEN 1 ELSE 0))
            g == [q EXCEPT !.calls = Called(q, "EXPIRE", reachable)]
        IN  /\ counter_ttl' = [counter_ttl EXCEPT ![u] =
                   IF reachable /\ counter[u] > 0 THEN WINDOW_SECONDS ELSE @]
            /\ req' = [req EXCEPT ![r] =
                   IF res.kind = "raise" THEN Unhandled(g)
                   ELSE Checked(g, counter[u])]
    /\ UNCHANGED <<counter, conv, conv_ttl, fs_vars, env_vars, fn_vars>>

\* firestore_service.py save_chat_message 49-71: no db, no write; else add,
\* whose exception is not caught here.
save_chat_message(db, reachable) ==
    IF ~db THEN "skipped" ELSE IF reachable THEN "written" ELSE "raise"

\* firestore_service.py log_request 136-159: the same.
log_request(db, reachable) ==
    IF ~db THEN "skipped" ELSE IF reachable THEN "written" ELSE "raise"

\* chat.py 168-183: the except branch of /chat logs the failure, then 500.
Failed(q, e) == [q EXCEPT !.pc = "fs_log_err", !.error = e]

\* chat.py 158-166 and 226-233.
Respond200(q) ==
    [q EXCEPT !.pc = "done", !.status = 200, !.body = q.response_text]

\* chat.py 180-183 and 236-239.
Respond500(q, e) ==
    [q EXCEPT !.pc = "done", !.status = 500, !.error = e,
              !.detail = "Error generating response: " \o e]

\* chat.py 135-147: the exchange is recorded for a named caller only.
AfterSave(q) ==
    IF q.user_id # "anonymous" THEN [q EXCEPT !.pc = "fs_exchange"]
    ELSE [q EXCEPT !.pc = "fs_log"]

\* chat.py 96-105: load the transcript (GET conv:<user>) and assemble the
\* messages for the upstream call.
HistLoad(r) ==
    /\ req[r].pc = "hist_load"
    /\ \E reachable \in BOOLEAN :
        LET q == req[r]
            u == q.user_id
            value == _execute(redis_configured, reachable,
                         IF conv[u] = <<>> THEN None ELSE Value(conv[u]))
            loaded == get_conversation(value)
            g == [q EXCEPT !.seen_conv = conv[u],
                           !.calls = IF redis_configured
                                     THEN Called(q, "LOAD", reachable) ELSE @]
        IN  req' = [req EXCEPT ![r] =
                IF loaded.kind = "raise" THEN Unhandled(g)
                ELSE [g EXCEPT !.pc = "dispatch", !.history = loaded.val,
                               !.messages = AssembleMessages(g.system_prompt,
                                                loaded.val, g.message)]]
    /\ UNCHANGED <<redis_vars, fs_vars, env_vars, fn_vars>>

\* chat.py 112-125 and 213-224, llm_service.py generate_with_history: one
\* POST to the provider; its text is cleaned at once.
DispatchOk(r) ==
    /\ req[r].pc = "dispatch"
    /\ \E text \in UpstreamTexts :
        LET q == req[r]
            g == [q EXCEPT !.calls = Called(q, "POST", TRUE), !.raw = text,
                           !.url = ProviderUrl(q.model),
                           !.response_text = clean_response(text)]
        IN  req' = [req EXCEPT ![r] =
                IF g.endpoint = "complete" THEN Respond200(g)
                ELSE IF UsesHistory(g.use_history, g.user_id)
                THEN [g EXCEPT !.pc = "conv_save"]
                ELSE AfterSave(g)]
    /\ UNCHANGED <<redis_vars, fs_vars, env_vars, fn_vars>>

\* The POST fails (raise_for_status, transport error, timeout).
DispatchFail(r) ==
    /\ req[r].pc = "dispatch"
    /\ \E e \in UpstreamErrors :
        LET q == req[r]
            g == [q EXCEPT !.calls = Called(q, "POST", FALSE),
                           !.url = ProviderUrl(q.model)]
        IN  req' = [req EXCEPT ![r] =
                IF g.endpoint = "complete" THEN Respond500(g, e)
                ELSE Failed(g, e)]
    /\ UNCHANGED <<redis_vars, fs_vars, env_vars, fn_vars>>

\* A save that appends the exchange to whatever the store holds (RPUSH).
ConvSaveAppend(r) ==
    /\ req[r].pc = "conv_save"
    /\ \E reachable \in BOOLEAN :
        LET q == req[r]
            u == q.user_id
            history == UpdatedHistory(q.history, q.message, q.response_text)
            res == _execute(redis_configured, reachable, Value("OK"))
            g == [q EXCEPT !.history = history,
                           !.calls = IF redis_configured
                                     THEN Called(q, "SAVE", reachable) ELSE @]
            stored == redis_configured /\ reachable
        IN  /\ conv' = [conv EXCEPT ![u] =
                   IF stored
                   THEN UpdatedHistory(@, q.message, q.response_text) ELSE @]
            /\ conv_ttl' = [conv_ttl EXCEPT ![u] = IF stored THEN CONV_TTL ELSE @]
            /\ req' = [req EXCEPT ![r] =
                   IF res.kind = "raise" THEN Failed(g, "redis") ELSE AfterSave(g)]
    /\ UNCHANGED <<counter, counter_ttl, fs_vars, env_vars, fn_vars>>

\* A save that leaves the expiry of an existing key as it is (SET KEEPTTL).
ConvSaveKeepTtl(r) ==
    /\ req[r].pc = "conv_save"
    /\ \E reachable \in BOOLEAN :
        LET q == req[r]
            u == q.user_id
            history == UpdatedHistory(q.history, q.message, q.response_text)
            res == _execute(redis_configured, reachable, Value("OK"))
            g == [q EXCEPT !.history = history,
                           !.calls = IF redis_configured
                                     THEN Called(q, "SAVE", reachable) ELSE @]
            stored == redis_configured /\ reachable
        IN  /\ conv' = [conv EXCEPT ![u] = IF stored THEN history ELSE @]
            /\ conv_ttl' = [conv_ttl EXCEPT ![u] =
                   IF stored /\ conv[u] = <<>> THEN CONV_TTL ELSE @]
            /\ req' = [req EXCEPT ![r] =
                   IF res.kind = "raise" THEN Failed(g, "redis") ELSE AfterSave(g)]
    /\ UNCHANGED <<counter, counter_ttl, fs_vars, env_vars, fn_vars>>

\* chat.py 127-133, redis_service.py save_conversation: SET conv:<user> to
\* the loaded history plus the exchange, EX ttl.
ConvSave(r) ==
    /\ req[r].pc = "conv_save"
    /\ \E reachable \in BOOLEAN :
        LET q == req[r]
            u == q.user_id
            history == UpdatedHistory(q.history, q.message, q.response_text)
            res == _execute(redis_configured, reachable, Value("OK"))
            g == [q EXCEPT !.history = history,
                           !.calls = IF redis_configured
                                     THEN Called(q, "SAVE", reachable) ELSE @]
            stored == redis_configured /\ reachable
        IN  /\ conv' = [conv EXCEPT ![u] = IF stored THEN history ELSE @]
            /\ conv_ttl' = [conv_ttl EXCEPT ![u] = IF stored THEN CONV_TTL ELSE @]
            /\ req' = [req EXCEPT ![r] =
                   IF res.kind = "raise" THEN Failed(g, "redis") ELSE AfterSave(g)]
    /\ UNCHANGED <<counter, counter_ttl, fs_vars, env_vars, fn_vars>>

ExchangeDoc(r, q) ==
    [req |-> r, userId |-> q.user_id, message |-> q.message,
     response |-> q.response_text, model |-> q.model]

LogDoc(r, q, success, error) ==
    [req |-> r, userId |-> q.user_id, endpoint |-> "/api/chat",
     model |-> q.model, success |-> success, error |-> error]

\* chat.py 135-147: save_chat_message inside the try block.
FsExchange(r) ==
    /\ req[r].pc = "fs_exchange"
    /\ \E reachable \in BOOLEAN :
        LET q == req[r]
            res == save_chat_message(db_configured, reachable)
            g == [q EXCEPT !.calls = IF res = "skipped" THEN @
                                     ELSE Called(q, "EXCHANGE", res = "written")]
        IN  /\ reachable \/ db_configured
            /\ chat_history' = IF res = "written"
                               THEN chat_history \cup {ExchangeDoc(r, q)}
                               ELSE chat_history
            /\ req' = [req EXCEPT ![r] =
                   IF res = "raise" THEN Failed(g, "firestore")
                   ELSE [g EXCEPT !.pc = "fs_log"]]
    /\ UNCHANGED <<redis_vars, api_logs, env_vars, fn_vars>>

\* chat.py 149-166: log_request(success=True) inside the try block, then
\* the success response.
FsLog(r) ==
    /\ req[r].pc = "fs_log"
    /\ \E reachable \in BOOLEAN :
        LET q == req[r]
            res == log_request(db_configured, reachable)
            g == [q EXCEPT !.calls = IF res = "skipped" THEN @
                                     ELSE Called(q, "LOG_OK", res = "written")]
        IN  /\ reachable \/ db_configured
            /\ api_logs' = IF res = "written"
                           THEN api_logs \cup {LogDoc(r, q, TRUE, "")}
                           ELSE api_logs
            /\ req' = [req EXCEPT ![r] =
                   IF res = "raise" THEN Failed(g, "firestore")
                   ELSE Respond200(g)]
    /\ UNCHANGED <<redis_vars, chat_history, env_vars, fn_vars>>

\* chat.py 168-183: log_request(success=False, error=str(e)), then the 500;
\* an exception of this write leaves the handler uncaught.
FsLogErr(r) ==
    /\ req[r].pc = "fs_log_err"
    /\ \E reachable \in BOOLEAN :
        LET q == req[r]
            res == log_request(db_configured, reachable)
            g == [q EXCEPT !.calls = IF res = "skipped" THEN @
                                     ELSE Called(q, "LOG_ERR", res = "written")]
        IN  /\ reachable \/ db_configured
            /\ api_logs' = IF res = "written"
                           THEN api_logs \cup {LogDoc(r, q, FALSE, q.error)}
                           ELSE api_logs
            /\ req' = [req EXCEPT ![r] =
                   IF res = "raise" THEN Unhandled(g)
                   ELSE Respond500(g, q.error)]
    /\ UNCHANGED <<redis_vars, chat_history, env_vars, fn_vars>>

\* A clearing that also removes the caller's durable records and counter.
ClearHistoryAll(u) ==
    /\ redis_configured
    /\ conv[u] # <<>>
    /\ conv' = [conv EXCEPT ![u] = <<>>]
    /\ conv_ttl' = [conv_ttl EXCEPT ![u] = NoTtl]
    /\ counter' = [counter EXCEPT ![u] = 0]
    /\ counter_ttl' = [counter_ttl EXCEPT ![u] = NoTtl]
    /\ chat_history' = {doc \in chat_history : doc.userId # u}
    /\ api_logs' = {doc \in api_logs : doc.userId # u}
    /\ UNCHANGED <<env_vars, fn_vars, req>>

\* DELETE /chat/history (chat.py 242-248): DEL conv:<user>.
ClearHistory(u) ==
    /\ redis_configured
    /\ conv[u] # <<>>
    /\ conv' = [conv EXCEPT ![u] = <<>>]
    /\ conv_ttl' = [conv_ttl EXCEPT ![u] = NoTtl]
    /\ UNCHANGED <<counter, counter_ttl, fs_vars, env_vars, fn_vars, req>>

\* firestore_service.py get_chat_history 73-90: no db, no documents; else
\* the caller's documents, read by a query whose exception is not caught.
get_chat_history(db, reachable, docs, user_id) ==
    IF ~db THEN Value({})
    ELSE IF reachable THEN Value({doc \in docs : doc.userId = user_id})
    ELSE Raise

\* GET /chat/history (chat.py 251-258): the caller is shown the result.
GetHistory(u) ==
    /\ \E reachable \in BOOLEAN :
        /\ reachable \/ db_configured
        /\ probe' = [fn |-> "get_history", user_id |-> u,
                     history |-> get_chat_history(db_configured, reachable,
                                                  chat_history, u)]
    /\ UNCHANGED <<redis_vars, fs_vars, env_vars, req>>

\* The clock advances by d seconds: a key whose expiry is reached is gone.
Remaining(ttl, d) == IF ttl = NoTtl THEN NoTtl ELSE ttl - d
Expired(ttl, d) == ttl # NoTtl /\ ttl - d <= 0

Tick(d) ==
    /\ ticks < MaxTicks
    /\ ticks' = ticks + 1
    /\ counter' = [u \in Users |-> IF Expired(counter_ttl[u], d) THEN 0 ELSE counter[u]]
    /\ counter_ttl' = [u \in Users |->
           IF Expired(counter_ttl[u], d) THEN NoTtl ELSE Remaining(counter_ttl[u], d)]
    /\ conv' = [u \in Users |-> IF Expired(conv_ttl[u], d) THEN <<>> ELSE conv[u]]
    /\ conv_ttl' = [u \in Users |->
           IF Expired(conv_ttl[u], d) THEN NoTtl ELSE Remaining(conv_ttl[u], d)]
    /\ req' = [x \in Requests |->
           IF /\ req[x].pc \in {"rate_incr", "rate_expire"}
              /\ Expired(counter_ttl[req[x].user_id], d)
              /\ counter[req[x].user_id] > 0
           THEN [req[x] EXCEPT !.disturbed = TRUE] ELSE req[x]]
    /\ UNCHANGED <<redis_configured, db_configured, fs_vars, fn_vars>>

Next ==
    \/ \E r \in Solo : ChatBegin(r)
    \/ \E r \in Solo : CompleteBegin(r)
    \/ \E r \in Solo : RateGet(r)
    \/ \E r \in Solo : RateIncr(r)
    \/ \E r \in Solo : RateExpire(r)
    \/ \E r \in Solo : HistLoad(r)
    \/ \E r \in Solo : DispatchOk(r)
    \/ \E r \in Solo : DispatchFail(r)
    \/ \E r \in Solo : ConvSave(r)
    \/ \E r \in Solo : FsExchange(r)
    \/ \E r \in Solo : FsLog(r)
    \/ \E r \in Solo : FsLogErr(r)
    \/ \E u \in Users : ClearHistory(u)
    \/ \E d \in TimeSteps : Tick(d)

\* One request through its whole handler, the stores failing at will, the
\* clock advancing and the history being cleared at any moment.
Spec == Init /\ [][Next]_vars

InitRate ==
    /\ Init
    /\ db_configured
    /\ conv["u1"] = <<>>

NextRate ==
    \/ \E r \in Requests : RateBegin(r)
    \/ \E r \in Requests : RateGet(r)
    \/ \E r \in Requests : RateIncr(r)
    \/ \E r \in Requests : RateExpire(r)
    \/ \E d \in TimeSteps : Tick(d)

\* The rate-limit checks of concurrent requests, interleaved at every await.
SpecRate == InitRate /\ [][NextRate]_vars

\* What a body may carry as max_tokens and as temperature (in tenths): no
\* field, null, a string, and numbers at and beyond both ends of the range.
LimitPairs ==
    {Absent, JNull, JStr("x"), JNum(MAX_TOKENS_MIN - 1), JNum(MAX_TOKENS_MIN),
     JNum(MAX_TOKENS_MAX), JNum(MAX_TOKENS_MAX + 1)}
      \X {Absent, JNull, JStr("x"), JNum(TEMPERATURE_MIN - 1), JNum(TEMPERATURE_MIN),
          JNum(TEMPERATURE_MAX), JNum(TEMPERATURE_MAX + 1)}

\* A request of either endpoint with any limits, followed from its parsing
\* to the upstream call.
NextValid ==
    \/ \E r \in Solo : ChatBeginWith(r, Users, BOOLEAN, {NoPrompt}, LimitPairs,
                                      DefaultModels)
    \/ \E r \in Solo : CompleteBeginWith(r, Users, LimitPairs, DefaultModels)
    \/ \E r \in Solo : RateGet(r)
    \/ \E r \in Solo : RateIncr(r)
    \/ \E r \in Solo : RateExpire(r)
    \/ \E r \in Solo : HistLoad(r)
    \/ \E r \in Solo : DispatchOk(r)
    \/ \E r \in Solo : DispatchFail(r)

SpecValid == Init /\ [][NextValid]_vars

\* A request of either endpoint naming any model, followed from its parsing
\* to the upstream call.
NextRoute ==
    \/ \E r \in Solo : ChatBeginWith(r, Users, {FALSE}, {NoPrompt}, DefaultLimits,
                                      BodyModels)
    \/ \E r \in Solo : CompleteBeginWith(r, Users, DefaultLimits, BodyModels)
    \/ \E r \in Solo : RateGet(r)
    \/ \E r \in Solo : RateIncr(r)
    \/ \E r \in Solo : RateExpire(r)
    \/ \E r \in Solo : DispatchOk(r)
    \/ \E r \in Solo : DispatchFail(r)

SpecRoute == Init /\ [][NextRoute]_vars

NextAudit ==
    \/ \E r \in Solo : ChatBegin(r)
    \/ \E r \in Solo : CompleteBegin(r)
    \/ \E r \in Solo : RateGet(r)
    \/ \E r \in Solo : RateIncr(r)
    \/ \E r \in Solo : RateExpire(r)
    \/ \E r \in Solo : HistLoad(r)
    \/ \E r \in Solo : DispatchOk(r)
    \/ \E r \in Solo : DispatchFail(r)
    \/ \E r \in Solo : ConvSave(r)
    \/ \E r \in Solo : FsExchange(r)
    \/ \E r \in Solo : FsLog(r)
    \/ \E r \in Solo : FsLogErr(r)
    \/ \E u \in Users : ClearHistory(u)
    \/ \E u \in Users : GetHistory(u)

\* One request through its whole handler while the history is cleared and
\* read at any moment; the clock stands still.
SpecAudit == Init /\ [][NextAudit]_vars

\* The store is configured and holds a transcript of the caller that is
\* longer than the tail a request forwards; the caller's counter is at
\* zero; no durable store is configured.
InitHist ==
    /\ Init
    /\ redis_configured
    /\ ~db_configured
    /\ counter["u1"] = 0
    /\ Len(conv["u1"]) > HISTORY_TAIL

\* A /chat request of caller u1 that asks for its history.
HistBegin(r) ==
    ChatBeginWith(r, {"u1"}, {TRUE}, {NoPrompt}, DefaultLimits, DefaultModels)

NextHist ==
    \/ \E r \in Requests : HistBegin(r)
    \/ \E r \in Requests : RateGet(r)
    \/ \E r \in Requests : RateIncr(r)
    \/ \E r \in Requests : RateExpire(r)
    \/ \E r \in Requests : HistLoad(r)
    \/ \E r \in Requests : DispatchOk(r)
    \/ \E r \in Requests : DispatchFail(r)
    \/ \E r \in Requests : ConvSave(r)

\* Two history-enabled requests of one caller, interleaved at every await,
\* each followed to the end of its conversation save.
SpecHist == InitHist /\ [][NextHist]_vars

\* No counter and conversation store is configured.
InitPair ==
    /\ Init
    /\ ~redis_configured

NextPair ==
    \/ \E r \in Requests : RateBegin(r)
    \/ \E r \in Requests : CompleteBegin(r)
    \/ \E r \in Requests : RateGet(r)
    \/ \E r \in Requests : DispatchOk(r)
    \/ \E r \in Requests : DispatchFail(r)
    \/ \E r \in Requests : FsLogErr(r)

\* Two requests side by side, each followed to the response of a failed
\* upstream call.
SpecPair == InitPair /\ [][NextPair]_vars

\* ------------------------------------------------------------ pure functions

\* No request is under way and the stores are empty: only probe moves.
Quiescent ==
    /\ redis_configured = FALSE
    /\ db_configured = FALSE
    /\ counter = [u \in Users |-> 0]
    /\ counter_ttl = [u \in Users |-> NoTtl]
    /\ conv = [u \in Users |-> <<>>]
    /\ conv_ttl = [u \in Users |-> NoTtl]
    /\ chat_history = {}
    /\ api_logs = {}
    /\ req = [r \in Requests |-> IdleRequest]
    /\ ticks = 0

\* A text is handed to clean_response.
InitClean ==
    /\ Quiescent
    /\ \E t \in Texts : probe = [fn |-> "clean", input |-> t, outputs |-> <<>>]

\* clean_response is applied to the text, then to its own result.
Clean ==
    /\ probe.fn = "clean"
    /\ Len(probe.outputs) < 2
    /\ probe' = [probe EXCEPT !.outputs =
           Append(@, clean_response(IF @ = <<>> THEN probe.input ELSE @[Len(@)]))]
    /\ UNCHANGED <<redis_vars, fs_vars, env_vars, req>>

NextClean == Clean

SpecClean == InitClean /\ [][NextClean]_vars

\* Not computed yet.
Pending == [kind |-> "pending"]

\* A reply of the provider arrives (_generate_runpod 166).
InitExtract ==
    /\ Quiescent
    /\ \E r \in Replies :
        probe = [fn |-> "extract", input |-> r, response |-> Pending,
                 usage |-> Pending]

\* _generate_runpod 171: "response": self._extract_response(result)
ExtractResponse ==
    /\ probe.fn = "extract"
    /\ probe.response = Pending
    /\ probe' = [probe EXCEPT !.response = _extract_response(probe.input)]
    /\ UNCHANGED <<redis_vars, fs_vars, env_vars, req>>

\* _generate_runpod 172: "usage": self._extract_usage(result), reached when
\* the line before did not raise.
ExtractUsage ==
    /\ probe.fn = "extract"
    /\ probe.response.kind = "value"
    /\ probe.usage = Pending
    /\ probe' = [probe EXCEPT !.usage = _extract_usage(probe.input)]
    /\ UNCHANGED <<redis_vars, fs_vars, env_vars, req>>

NextExtract == ExtractResponse \/ ExtractUsage

SpecExtract == InitExtract /\ [][NextExtract]_vars

\* ------------------------------------------------------------ claims

\* What a request has called so far.
CallOps(q) == {q.calls[i].op : i \in 1..Len(q.calls)}
OkOps(q) == {q.calls[i].op : i \in {j \in 1..Len(q.calls) : q.calls[j].ok}}
FailedOps(q) == {q.calls[i].op : i \in {j \in 1..Len(q.calls) : ~q.calls[j].ok}}
RateOps == {"GET", "INCR", "EXPIRE"}
RedisOps == RateOps \cup {"LOAD", "SAVE"}
FirestoreOps == {"EXCHANGE", "LOG_OK", "LOG_ERR"}

\* C1: a check against a reachable store, with nobody else moving the
\* counter meanwhile: below the limit it admits, the stored count afterwards
\* is the stored count before plus one, and that is the count returned; at
\* or above the limit it rejects, returns the stored count and leaves it.
C1_RateLimitContract ==
    \A r \in Requests :
        LET q == req[r]
        IN  (/\ q.checked
             /\ redis_configured
             /\ FailedOps(q) \cap RateOps = {}
             /\ ~q.disturbed)
            => IF q.seen_count < RATE_LIMIT
               THEN /\ q.is_allowed
                    /\ q.post_count = q.seen_count + 1
                    /\ q.rl_count = q.post_count
               ELSE /\ ~q.is_allowed
                    /\ q.rl_count = q.seen_count
                    /\ q.post_count = q.seen_count

\* One request admitted just below the limit and the next one rejected at it.
C1_Witness ==
    \E a, b \in Requests :
        /\ req[a].checked /\ req[a].is_allowed /\ ~req[a].disturbed
        /\ req[a].seen_count = RATE_LIMIT - 1 /\ req[a].post_count = RATE_LIMIT
        /\ FailedOps(req[a]) = {}
        /\ req[b].checked /\ ~req[b].is_allowed /\ req[b].seen_count = RATE_LIMIT
        /\ req[b].rl_count = RATE_LIMIT /\ FailedOps(req[b]) = {}

\* C2: with a store that answers every call, concurrent checks of one key
\* never admit more than limit calls in a window: the stored counter never
\* exceeds limit.
C2_AdmittedWithinLimit ==
    (\A r \in Requests : FailedOps(req[r]) = {})
        => \A u \in Users : counter[u] <= RATE_LIMIT

\* C3: a check never moves the end of a window that has begun: with a store
\* that answers every call, once the counter key has an expiry no step
\* sets it later than it was (EXPIRE is issued only by the check whose
\* increment created the key).
C3_WindowEndFixed ==
    [][(\A r \in Requests : FailedOps(req'[r]) = {})
          => \A u \in Users :
                 counter_ttl[u] # NoTtl => counter_ttl'[u] <= counter_ttl[u]]_vars

\* C4: a request the rate limiter rejects ends with 429 and has called
\* nothing but the counter's GET: no upstream call, no conversation read or
\* write, no exchange record, no log record.
C4_RejectedStopsRequest ==
    \A r \in Requests :
        LET q == req[r]
        IN  (q.checked /\ ~q.is_allowed)
            => /\ q.pc = "done"
               /\ q.status = 429
               /\ CallOps(q) \subseteq {"GET"}
               /\ \A d \in chat_history \cup api_logs : d.req # r

\* A rejected request of a named caller who asked for history and has a
\* stored transcript.
C4_Witness ==
    \E r \in Requests :
        /\ req[r].checked /\ ~req[r].is_allowed /\ req[r].pc = "done"
        /\ req[r].endpoint = "chat" /\ req[r].use_history
        /\ req[r].user_id = "u1" /\ conv["u1"] # <<>>

\* C5: with the counter store unconfigured, or with any of GET, INCR, EXPIRE
\* failing, the check admits the request and raises nothing.
C5_FailsOpen ==
    \A r \in Requests :
        LET q == req[r]
        IN  (/\ q.pc \notin {"idle", "rate_get", "rate_incr", "rate_expire"}
             /\ (~redis_configured \/ FailedOps(q) \cap RateOps # {}))
            => q.checked /\ q.is_allowed /\ q.status \notin {429, 500}

\* A request admitted although the counter stood at the limit, its GET
\* having failed.
C5_Witness ==
    \E r \in Requests :
        /\ req[r].checked /\ req[r].is_allowed
        /\ "GET" \in FailedOps(req[r])
        /\ req[r].seen_count = RATE_LIMIT

\* The optional system message at the head of the upstream messages.
PromptPart(q) ==
    IF q.system_prompt # NoPrompt THEN <<Msg("system", q.system_prompt)>> ELSE <<>>

\* With a transcript of n messages read from the store, the messages sent
\* upstream are the optional system message, the last min(n, 20) stored
\* messages in their order, and the current user message.
C6Forwarded(r) ==
    LET q == req[r]
        stored == q.seen_conv
        n == Len(stored)
        k == IF n < HISTORY_TAIL THEN n ELSE HISTORY_TAIL
        p == Len(PromptPart(q))
    IN  (q.endpoint = "chat" /\ "LOAD" \in OkOps(q))
        => /\ Len(q.messages) = p + k + 1
           /\ SubSeq(q.messages, 1, p) = PromptPart(q)
           /\ \A i \in 1..k : q.messages[p + i] = stored[n - k + i]
           /\ q.messages[p + k + 1] = Msg("user", q.message)

\* The SET of a request that had read n messages leaves n + 2 in the store:
\* the n it read, its user message and the assistant's answer.
C6Saved(r) ==
    LET q == req[r]
        stored == q.seen_conv
        n == Len(stored)
    IN  (/\ q.pc = "conv_save"
         /\ "LOAD" \in OkOps(q)
         /\ "SAVE" \in OkOps(req'[r]))
        => /\ Len(conv'[q.user_id]) = n + 2
           /\ SubSeq(conv'[q.user_id], 1, n) = stored
           /\ conv'[q.user_id][n + 1] = Msg("user", q.message)
           /\ conv'[q.user_id][n + 2] = Msg("assistant", q.response_text)

\* C6: a history-enabled /chat request of a named caller whose stored
\* transcript has n messages forwards exactly the last min(n, 20) of them,
\* in order, followed by the current user message, and its save stores all
\* n followed by the new user and assistant messages.
C6_HistoryWindow ==
    /\ [](\A r \in Requests : C6Forwarded(r))
    /\ [][\A r \in Requests : C6Saved(r)]_vars

\* A finished exchange over a transcript longer than the window: the tail
\* was forwarded and the whole transcript plus two messages is stored.
C6_Witness ==
    \E r \in Requests :
        LET q == req[r]
        IN  /\ q.pc = "done" /\ q.status = 200
            /\ {"LOAD", "SAVE"} \subseteq OkOps(q)
            /\ Len(q.seen_conv) = HISTORY_TAIL + 2 * MaxExchanges
            /\ Len(q.messages) = Len(PromptPart(q)) + HISTORY_TAIL + 1
            /\ Len(conv[q.user_id]) = Len(q.seen_conv) + 2

\* C7: a /chat request whose upstream call succeeded answers 200 with the
\* generated text, whatever the durable-store writes did.
C7_DurableWritesBestEffort ==
    \A r \in Requests :
        LET q == req[r]
        IN  (q.endpoint = "chat" /\ "POST" \in OkOps(q) /\ q.pc = "done")
            => q.status = 200 /\ q.body = q.response_text

\* C8: when the upstream call of an admitted request fails and the durable
\* store is configured and reachable, the request has written exactly one
\* log record, with success = false and the error text, by the time it
\* answers.
C8_FailureLoggedOnce ==
    \A r \in Requests :
        LET q == req[r]
            mine == {d \in api_logs : d.req = r}
        IN  (/\ "POST" \in FailedOps(q)
             /\ db_configured
             /\ FailedOps(q) \cap FirestoreOps = {}
             /\ q.pc = "done")
            => /\ Cardinality(mine) = 1
               /\ \A d \in mine : ~d.success /\ d.error = q.error

\* C9: a /chat request for which the counter and conversation store is
\* unconfigured, or fails at every call, is admitted, loads an empty
\* history, sends only the optional system prompt and the current user
\* message, and (the provider answering and the durable writes not raising)
\* succeeds with the generated text; no failure of the store reaches the
\* caller.
C9_StoreDownChatWorks ==
    \A r \in Requests :
        LET q == req[r]
            fs_raised == FailedOps(q) \cap FirestoreOps # {}
        IN  (q.endpoint = "chat" /\ q.pc # "idle" /\ OkOps(q) \cap RedisOps = {})
            => /\ q.status # 429
               /\ q.pc = "dispatch" => q.history = <<>>
               /\ "POST" \in CallOps(q)
                    => q.messages = PromptPart(q) \o <<Msg("user", q.message)>>
               /\ q.pc = "done"
                    => IF "POST" \in OkOps(q) /\ ~fs_raised
                       THEN q.status = 200 /\ q.body = clean_response(q.raw)
                       ELSE q.status = 500 /\ ("POST" \in FailedOps(q) \/ fs_raised)

\* A successful history-enabled request of a caller with a stored
\* transcript, every one of whose store calls failed.
C9_Witness ==
    \E r \in Requests :
        LET q == req[r]
        IN  /\ q.endpoint = "chat" /\ q.use_history /\ q.user_id = "u1"
            /\ redis_configured
            /\ {"GET", "INCR", "LOAD", "SAVE"} \subseteq FailedOps(q)
            /\ OkOps(q) \cap RedisOps = {}
            /\ q.status = 200
            /\ conv["u1"] # <<>>

\* A complete reasoning span: an opening tag with a closing tag after it.
HasSpan(s) ==
    \E i \in 1..Len(s) :
        /\ StartsWith(SubSeq(s, i, Len(s)), OPEN)
        /\ Find(s, CLOSE, i + Len(OPEN)) > 0

\* The text holds no complete reasoning span and no outer whitespace.
Presentable(text) == ~HasSpan(text) /\ Strip(text) = text

\* C10: the text returned to the caller, and every assistant message saved
\* into a transcript, holds no complete reasoning span (<think> with a
\* later </think>) and no leading or trailing whitespace.
C10_NoReasoningReachesCaller ==
    /\ \A r \in Requests : req[r].status = 200 => Presentable(req[r].body)
    /\ \A u \in Users : \A i \in 1..Len(conv[u]) :
           conv[u][i].role = "assistant" => Presentable(conv[u][i].content)

\* C11: cleaning is idempotent: cleaning the cleaned text gives the cleaned
\* text again.
C11_CleanIdempotent ==
    (probe.fn = "clean" /\ Len(probe.outputs) = 2)
        => probe.outputs[2] = probe.outputs[1]

EndsWith(s, p) ==
    /\ Len(s) >= Len(p)
    /\ SubSeq(s, Len(s) - Len(p) + 1, Len(s)) = p

\* An opening tag at i with no closing tag after it.
UnclosedAt(t, i) ==
    /\ StartsWith(SubSeq(t, i, Len(t)), OPEN)
    /\ Find(t, CLOSE, i + Len(OPEN)) = 0

\* A closing tag at j with no opening tag before it.
UnopenedAt(t, j) ==
    /\ StartsWith(SubSeq(t, j, Len(t)), CLOSE)
    /\ \A i \in 1..(j - 1) : ~StartsWith(SubSeq(t, i, Len(t)), OPEN)

\* C12: an unmatched tag and the text around it survive cleaning: a text
\* with no complete span is only trimmed; an opening tag that is never
\* closed is kept with all the text after it (but trailing blanks); a
\* closing tag that was never opened is kept with all the text before it
\* (but leading blanks).
C12_UnmatchedTagsIntact ==
    (probe.fn = "clean" /\ Len(probe.outputs) >= 1)
        => LET t == probe.input
               c == probe.outputs[1]
           IN  /\ ~HasSpan(t) => c = Strip(t)
               /\ \A i \in 1..Len(t) :
                      UnclosedAt(t, i) => EndsWith(c, RStrip(SubSeq(t, i, Len(t))))
               /\ \A j \in 1..Len(t) :
                      UnopenedAt(t, j)
                          => StartsWith(c, LStrip(SubSeq(t, 1, j + Len(CLOSE) - 1)))

\* A closing tag never opened, a paired span, and an opening tag never
\* closed: only the paired span is gone.
C12_Witness ==
    /\ probe.fn = "clean"
    /\ probe.input = CLOSE \o OPEN \o <<"a">> \o CLOSE \o OPEN
    /\ Len(probe.outputs) >= 1
    /\ probe.outputs[1] = CLOSE \o OPEN

\* C13: for every reply, _extract_response returns a string: it neither
\* raises nor returns None or any other value that is no string.
C13_ExtractionYieldsString ==
    (probe.fn = "extract" /\ probe.response # Pending)
        => probe.response.kind = "value" /\ probe.response.val.t = "str"

\* A one-element list stands for its element.
Unwrapped(v) == IF v.t = "list" /\ Len(v.items) = 1 THEN v.items[1] ELSE v

IsStr(v) == v.t = "str"
StrOrAbsent(d, k) == Has(d, k) => IsStr(d.fields[k])

\* choices[0], when there is one.
FirstChoice(o) ==
    IF Has(o, "choices") /\ o.fields["choices"].items # <<>>
    THEN o.fields["choices"].items[1] ELSE EmptyDict

\* An output that is a dict whose fields have the types the priority order
\* speaks of: choices a list whose first element is a dict, tokens a list
\* of strings, message a dict, every content-bearing field a string (text
\* possibly a non-empty list of strings).
PlainOutput(o) ==
    /\ o.t = "dict"
    /\ Has(o, "choices") => o.fields["choices"].t = "list"
    /\ LET c == FirstChoice(o)
       IN  /\ c.t = "dict"
           /\ Has(c, "tokens") =>
                  /\ c.fields["tokens"].t = "list"
                  /\ \A i \in 1..Len(c.fields["tokens"].items) :
                         IsStr(c.fields["tokens"].items[i])
           /\ Has(c, "message") =>
                  /\ c.fields["message"].t = "dict"
                  /\ StrOrAbsent(c.fields["message"], "content")
           /\ StrOrAbsent(c, "text")
    /\ Has(o, "text") =>
           \/ IsStr(o.fields["text"])
           \/ /\ o.fields["text"].t = "list"
              /\ o.fields["text"].items # <<>>
              /\ IsStr(o.fields["text"].items[1])
    /\ StrOrAbsent(o, "response")
    /\ StrOrAbsent(o, "content")

\* A reply of such types: a dict, or a one-element list of one, whose
\* output is a string or a plain output, or a one-element list of one.
PlainReply(p) ==
    /\ Unwrapped(p).t = "dict"
    /\ LET o == Unwrapped(Get(Unwrapped(p), "output", EmptyDict))
       IN  IsStr(o) \/ PlainOutput(o)

\* The values the fields of a plain output yield, in the order of priority:
\* tokens[0], message.content and text of choices[0], then text (its
\* element 0 when a list), response, content of the output.
Candidates(o) ==
    LET c == FirstChoice(o)
        One(d, k) == IF Has(d, k) THEN <<d.fields[k]>> ELSE <<>>
    IN  (IF Has(c, "tokens") /\ c.fields["tokens"].items # <<>>
         THEN <<c.fields["tokens"].items[1]>> ELSE <<>>)
        \o (IF Has(c, "message") THEN One(c.fields["message"], "content") ELSE <<>>)
        \o One(c, "text")
        \o (IF Has(o, "text") THEN <<Unwrapped(o.fields["text"])>> ELSE <<>>)
        \o One(o, "response")
        \o One(o, "content")

\* What the priority order gives for a plain reply.
Expected(p) ==
    LET o == Unwrapped(Get(Unwrapped(p), "output", EmptyDict))
    IN  IF IsStr(o) THEN o
        ELSE IF Candidates(o) # <<>> THEN Head(Candidates(o))
        ELSE JStr(PyStr(o))

ExampleReply ==
    JDict("output" :> JDict("choices" :>
        JList(<<JDict("tokens" :> JList(<<JStr("hello world")>>))>>)))

\* C14: for a reply whose fields have the expected types, _extract_response
\* returns the first value in the order of priority (a string output; else
\* tokens[0], message.content, text of choices[0]; else text, response,
\* content of the output; else the output stringified); the reply
\* {"output":{"choices":[{"tokens":["hello world"]}]}} gives "hello world".
C14_ExtractionPriority ==
    (probe.fn = "extract" /\ probe.response # Pending)
        => /\ PlainReply(probe.input)
                => probe.response = Value(Expected(probe.input))
           /\ probe.input = ExampleReply
                => probe.response = Value(JStr("hello world"))

\* A dict with no output, or whose output is a dict with none of choices,
\* text, response and content.
NoContentField(p) ==
    /\ p.t = "dict"
    /\ LET o == Get(p, "output", EmptyDict)
       IN  /\ o.t = "dict"
           /\ DOMAIN o.fields \cap {"choices", "text", "response", "content"} = {}

\* C15: a reply with no content-bearing field gives the empty string.
C15_NoContentGivesEmpty ==
    (probe.fn = "extract" /\ probe.response # Pending /\ NoContentField(probe.input))
        => probe.response = Value(JStr(""))

\* A reply whose output has a non-empty usage dict, and that dict.
HasUsage(p) ==
    /\ FirstOf(p).t = "dict"
    /\ LET o == FirstOf(Get(FirstOf(p), "output", EmptyDict))
       IN  /\ o.t = "dict"
           /\ Has(o, "usage")
           /\ o.fields["usage"].t = "dict"
           /\ DOMAIN o.fields["usage"].fields # {}
UsageOf(p) == FirstOf(Get(FirstOf(p), "output", EmptyDict)).fields["usage"]

\* The key holds a number; the number under it, zero when missing or null.
Counted(u, k) == Has(u, k) /\ u.fields[k].t = "num"
Count(u, k) == IF Counted(u, k) THEN u.fields[k].n ELSE 0
\* One side of the usage: the explicit key when it holds a number, else
\* the alias.
Side(u, explicit, alias) ==
    IF Counted(u, explicit) THEN Count(u, explicit) ELSE Count(u, alias)

\* C16: _extract_usage never raises; where both prompt_tokens and input (or
\* completion_tokens and output) hold a number it reports the explicit
\* key's; and where no total_tokens is supplied its total is the sum of the
\* two sides, a missing or null value counting as zero.
C16_UsagePrefersExplicitKeys ==
    (probe.fn = "extract" /\ probe.usage # Pending /\ HasUsage(probe.input))
        => LET u == UsageOf(probe.input)
               out == probe.usage.val.fields
           IN  /\ probe.usage.kind = "value"
               /\ (Counted(u, "prompt_tokens") /\ Counted(u, "input"))
                      => out["prompt_tokens"] = u.fields["prompt_tokens"]
               /\ (Counted(u, "completion_tokens") /\ Counted(u, "output"))
                      => out["completion_tokens"] = u.fields["completion_tokens"]
               /\ ~Has(u, "total_tokens")
                      => out["total_tokens"]
                           = JNum(Side(u, "prompt_tokens", "input")
                                  + Side(u, "completion_tokens", "output"))

\* The positions in a request's calls of the operations of a kind.
Positions(q, ops) == {i \in 1..Len(q.calls) : q.calls[i].op \in ops}
AllBefore(q, first, later) ==
    \A i \in Positions(q, first), j \in Positions(q, later) : i < j
PersistOps == {"SAVE"} \cup FirestoreOps

\* C17: the external calls of a request come in the order rate-limit check,
\* history load, upstream call, persistence, each after the one before it
\* has returned: a load or an upstream call is made only by a request whose
\* check has admitted it; the upstream call of a request that uses history
\* comes after its load; a save or a durable write comes after the
\* upstream call.
C17_StepsInOrder ==
    \A r \in Requests :
        LET q == req[r]
        IN  /\ AllBefore(q, RateOps, {"LOAD", "POST"} \cup PersistOps)
            /\ AllBefore(q, {"LOAD"}, {"POST"} \cup PersistOps)
            /\ AllBefore(q, {"POST"}, PersistOps)
            /\ CallOps(q) \cap ({"LOAD", "POST"} \cup PersistOps) # {}
                   => q.checked /\ q.is_allowed
            /\ ("POST" \in CallOps(q) /\ redis_configured /\ q.endpoint = "chat"
                  /\ UsesHistory(q.use_history, q.user_id))
                   => "LOAD" \in CallOps(q)
            /\ CallOps(q) \cap PersistOps # {} => "POST" \in CallOps(q)

\* A request that made every call there is.
C17_Witness ==
    \E r \in Requests :
        /\ req[r].pc = "done"
        /\ [i \in 1..Len(req[r].calls) |-> req[r].calls[i].op]
             = <<"GET", "INCR", "EXPIRE", "LOAD", "POST", "SAVE", "EXCHANGE", "LOG_OK">>

\* The request is one of /chat whose caller asked for history and is named.
OptedIn(q) == q.endpoint = "chat" /\ q.use_history /\ q.user_id # "anonymous"

\* C18: only a /chat request of a named caller who asked for history reads
\* or writes the conversation store; any other request sends upstream no
\* stored message, and no step of it changes a stored transcript.
C18_HistoryOnlyWhenOptedIn ==
    /\ [](\A r \in Requests :
            LET q == req[r]
            IN  /\ CallOps(q) \cap {"LOAD", "SAVE"} # {} => OptedIn(q)
                /\ (~OptedIn(q) /\ "POST" \in CallOps(q))
                       => /\ q.history = <<>>
                          /\ q.endpoint = "chat"
                                => q.messages = PromptPart(q) \o <<Msg("user", q.message)>>)
    /\ [][\A r \in Requests :
              (req'[r] # req[r] /\ ticks' = ticks /\ ~OptedIn(req[r]))
                  => conv' = conv]_vars

\* An anonymous caller who asked for history, and was answered without the
\* conversation store being touched, while the counter store was used.
C18_Witness ==
    \E r \in Requests :
        /\ req[r].user_id = "anonymous" /\ req[r].use_history
        /\ req[r].status = 200
        /\ "GET" \in OkOps(req[r])
        /\ CallOps(req[r]) \cap {"LOAD", "SAVE"} = {}
        /\ conv["u1"] # <<>>

\* C19: the messages sent upstream are never empty.
C19_MessagesNonEmpty ==
    \A r \in Requests :
        "POST" \in CallOps(req[r]) => req[r].messages # <<>>

InRange(v, lo, hi) == v.t = "num" /\ lo <= v.n /\ v.n <= hi
OutOfRange(v, lo, hi) == v.t = "num" /\ ~(lo <= v.n /\ v.n <= hi)

\* C20: a request that reaches the upstream call carries max_tokens within
\* [1, 4096] and temperature within [0.0, 2.0]; a request with a value out
\* of range is answered with a validation error and has made no external
\* call.
C20_LimitsInRange ==
    \A r \in Requests :
        LET q == req[r]
        IN  /\ "POST" \in CallOps(q)
                 => /\ InRange(q.max_tokens, MAX_TOKENS_MIN, MAX_TOKENS_MAX)
                    /\ InRange(q.temperature, TEMPERATURE_MIN, TEMPERATURE_MAX)
            /\ (q.pc # "idle"
                  /\ (\/ OutOfRange(q.body_limits[1], MAX_TOKENS_MIN, MAX_TOKENS_MAX)
                      \/ OutOfRange(q.body_limits[2], TEMPERATURE_MIN, TEMPERATURE_MAX)))
                 => /\ q.pc = "done" /\ q.status = 422
                    /\ q.calls = <<>>
                    /\ \A d \in chat_history \cup api_logs : d.req # r

\* The model a body names, when it names one of the supported models.
Named(q) ==
    IF q.body_model.t = "str" /\ Lower(q.body_model.s) \in LLMModel
    THEN Lower(q.body_model.s) ELSE "none"

\* The provider endpoint of each supported model.
OwnEndpoint(m) ==
    CASE m = "llama3" -> "https://api.runpod.ai/v2/nw34gp84qjli46/runsync"
      [] m = "nemotron" -> "https://api.runpod.ai/v2/29j7gu09q5l6x1/runsync"
      [] m = "groq" -> "https://api.groq.com/openai/v1/chat/completions"

\* C21: a request naming an unknown model is not refused and is dispatched
\* to the endpoint of llama3; a request naming llama3, nemotron or groq is
\* dispatched to the endpoint of the model it names.
C21_ModelRouting ==
    \A r \in Requests :
        LET q == req[r]
        IN  /\ (q.pc # "idle" /\ q.body_model.t = "str" /\ Named(q) = "none")
                 => q.status \notin {400, 422}
            /\ "POST" \in CallOps(q)
                 => q.url = OwnEndpoint(IF Named(q) = "none" THEN "llama3"
                                        ELSE Named(q))

\* The calls of the given kinds a request has made.
Attempts(q, ops) == Cardinality(Positions(q, ops))

OutcomeOps == {"LOG_OK", "LOG_ERR"}

\* C22: within one request each external operation is attempted at most
\* once: the upstream POST, the counter GET, INCR and EXPIRE, the
\* conversation load and save, the exchange record and the outcome record.
C22_NoRetry ==
    \A r \in Requests :
        /\ \A op \in RedisOps \cup {"POST", "EXCHANGE"} :
               Attempts(req[r], {op}) <= 1
        /\ Attempts(req[r], OutcomeOps) <= 1

\* Two requests that were given the same inputs and whose calls had the same
\* outcomes.
SameRun(a, b) ==
    /\ a.endpoint = b.endpoint /\ a.user_id = b.user_id
    /\ Len(a.messages) = Len(b.messages)
    /\ a.calls = b.calls

\* C23: two requests that differ only in the error their upstream call
\* failed with are given the same response: the status and the detail do
\* not depend on the upstream error.
C23_FailureResponseGeneric ==
    \A a, b \in Requests :
        (/\ req[a].pc = "done" /\ req[b].pc = "done"
         /\ "POST" \in FailedOps(req[a]) /\ "POST" \in FailedOps(req[b])
         /\ SameRun(req[a], req[b]))
        => /\ req[a].status = req[b].status
           /\ req[a].detail = req[b].detail

\* A step in which request r saves its conversation and the store takes it.
SaveStored(r) ==
    /\ req[r].pc = "conv_save"
    /\ "SAVE" \in OkOps(req'[r])

\* C24: a successful save of a transcript leaves the key with the full
\* default TTL whatever its TTL was before; a stored transcript always has
\* an expiry of at most that TTL, and the clock removes it only when the
\* time left since its last write has run out.
C24_SaveResetsTtl ==
    /\ [](\A u \in Users :
            conv[u] # <<>> => conv_ttl[u] \in 1..CONV_TTL)
    /\ [][/\ \A r \in Requests :
               SaveStored(r) => conv_ttl'[req[r].user_id] = CONV_TTL
          /\ \A u \in Users :
               (ticks' # ticks /\ conv[u] # <<>> /\ conv'[u] = <<>>)
                 => \E d \in TimeSteps : conv_ttl[u] <= d]_vars

\* C24 happens: a transcript that had half its TTL left when the request
\* began, and less after the clock advanced, was saved and has the full TTL.
C24_Witness ==
    \E r \in Requests :
        LET q == req[r]
        IN  /\ "SAVE" \in OkOps(q) /\ q.seen_conv # <<>>
            /\ ticks = 1
            /\ conv[q.user_id] = q.history
            /\ conv_ttl[q.user_id] = CONV_TTL

\* A step of DELETE /chat/history: a transcript goes while no request moves
\* and the clock stands.
ClearStep == req' = req /\ ticks' = ticks /\ conv' # conv

\* C25: no step of the gateway removes or changes a record of chat_history
\* or api_logs; clearing the history removes one caller's transcript and
\* leaves the durable records and every rate-limit counter as they were;
\* reading the history changes no store.
C25_DurableRecordsAppendOnly ==
    [][/\ chat_history \subseteq chat_history'
       /\ api_logs \subseteq api_logs'
       /\ ClearStep
            => /\ \E u \in Users : /\ conv' = [conv EXCEPT ![u] = <<>>]
                                  /\ conv_ttl' = [conv_ttl EXCEPT ![u] = NoTtl]
               /\ UNCHANGED <<counter, counter_ttl, chat_history, api_logs>>
       /\ probe' # probe
            => UNCHANGED <<redis_vars, fs_vars>>]_vars

\* C25 happens: the request recorded its exchange and its outcome and saved
\* the transcript; the transcript has been cleared since, the records and
\* the counter are still there, and the history read shows the exchange.
C25_Witness ==
    \E r \in Requests :
        LET q == req[r]
        IN  /\ {"SAVE", "EXCHANGE", "LOG_OK", "INCR"} \subseteq OkOps(q)
            /\ conv[q.user_id] = <<>>
            /\ counter[q.user_id] > 0
            /\ \E doc \in chat_history : doc.req = r
            /\ \E doc \in api_logs : doc.req = r
            /\ probe = [fn |-> "get_history", user_id |-> q.user_id,
                        history |-> Value({ExchangeDoc(r, q)})]

\* C26: after a successful upstream call of /chat the conversation save,
\* the exchange record and the success outcome record are each attempted,
\* whether or not another of them failed.
C26_WritesIndependent ==
    \A r \in Requests :
        LET q == req[r]
        IN  (q.endpoint = "chat" /\ "POST" \in OkOps(q) /\ q.pc = "done")
            => /\ (redis_configured /\ UsesHistory(q.use_history, q.user_id))
                    => "SAVE" \in CallOps(q)
               /\ (db_configured /\ q.user_id # "anonymous")
                    => "EXCHANGE" \in CallOps(q)
               /\ db_configured => "LOG_OK" \in CallOps(q)

\* A check of caller u's counter is between its INCR and its EXPIRE.
Expiring(u) ==
    \E r \in Requests : req[r].user_id = u /\ req[r].pc = "rate_expire"

\* C27: a counter key that exists carries an expiry once the check that
\* created it has ended, also when its EXPIRE failed.
C27_CounterExpires ==
    \A u \in Users :
        (counter[u] > 0 /\ ~Expiring(u)) => counter_ttl[u] # NoTtl

IsPrefix(s, t) == Len(s) <= Len(t) /\ SubSeq(t, 1, Len(s)) = s

\* C29: whenever the conversation save of a request is taken by the store,
\* the transcript stored before is a prefix of the one stored after, also
\* when the request's own load of the transcript failed.
C29_TranscriptNeverShrinks ==
    [][\A r \in Requests :
         SaveStored(r)
           => IsPrefix(conv[req[r].user_id], conv'[req[r].user_id])]_vars

\* The outcome records of request r.
Outcomes(r) == {doc \in api_logs : doc.req = r}

\* C30: a success=false outcome record exists only for a request whose
\* upstream call failed; a request whose upstream call succeeded is not
\* answered with a server error; no request has both a success=true and a
\* success=false record.
C30_FailureOnlyOnUpstreamFailure ==
    \A r \in Requests :
        LET q == req[r]
        IN  /\ (\E doc \in Outcomes(r) : ~doc.success) => "POST" \in FailedOps(q)
            /\ "POST" \in OkOps(q) => q.status # 500
            /\ ~(\E a, b \in Outcomes(r) : a.success /\ ~b.success)

\* The request is past its conversation save, or has failed before it.
PastSave(q) == q.pc \in {"fs_exchange", "fs_log", "fs_log_err", "done"}

\* The two messages of a request's own exchange.
Exchange(q) == <<Msg("user", q.message), Msg("assistant", q.response_text)>>

\* What a request wrote: the history it loaded (none when its load
\* failed), then its own exchange.
Written(q) ==
    (IF "LOAD" \in OkOps(q) THEN q.seen_conv ELSE <<>>) \o Exchange(q)

\* The requests whose save the store took.
Savers == {r \in Requests : "SAVE" \in OkOps(req[r])}

\* The exchanges of the given requests, one after the other.
Exchanges(order) ==
    IF Len(order) = 0 THEN <<>>
    ELSE IF Len(order) = 1 THEN Exchange(req[order[1]])
    ELSE Exchange(req[order[1]]) \o Exchange(req[order[2]])

\* The sequences of distinct requests that saved.
SaveOrders ==
    {<<>>} \cup {<<r>> : r \in Savers}
           \cup {o \in Savers \X Savers : o[1] # o[2]}

\* C28: with two history-enabled requests of one caller running
\* concurrently, the stored transcript is at every moment what was stored
\* at first or what one single request wrote (the history it loaded, then
\* its own user and assistant message), and it consists of an earlier
\* transcript followed by whole exchanges of distinct requests: nothing is
\* interleaved, duplicated or reordered.
C28_LostExchangeOnly ==
    /\ \/ Savers = {} /\ conv["u1"] \in {StoredTranscript(n) : n \in InitHistoryLens}
       \/ \E r \in Savers : conv["u1"] = Written(req[r])
    /\ \E n \in InitHistoryLens, order \in SaveOrders :
           conv["u1"] = StoredTranscript(n) \o Exchanges(order)

\* C28 happens: both requests loaded the same transcript and both saved;
\* the transcript holds the exchange of one of them and not the other's.
C28_Witness ==
    \E a, b \in Requests :
        /\ a # b /\ Savers = {a, b}
        /\ PastSave(req[a]) /\ PastSave(req[b])
        /\ {"LOAD"} \subseteq OkOps(req[a]) \cap OkOps(req[b])
        /\ req[a].seen_conv = req[b].seen_conv /\ req[a].seen_conv # <<>>
        /\ conv["u1"] = Written(req[b])
        /\ conv["u1"] # Written(req[a])
        /\ Len(conv["u1"]) = Len(req[a].seen_conv) + 2

====
